---- MODULE Spec2Model ----
(***************************************************************************)
(* Guardrailed Python-expert chat agent (src/guardrails_agent/main.py).    *)
(*                                                                         *)
(* The module models the process start (API key check, construction of the *)
(* client, the model and the three agents, registration of the two chat    *)
(* handlers) and the handling of each incoming message by on_message:      *)
(* Runner.run(main_agent, ...) with one input guardrail and one output     *)
(* guardrail, the two tripwire exceptions on_message catches, and the      *)
(* failures of the generation calls, which it does not catch.              *)
(*                                                                         *)
(* A generation call is an await: the handler is suspended between the     *)
(* issue of a call and its return or failure, and handlers of other        *)
(* messages run in between.  Each issue, return and failure is one action. *)
(*                                                                         *)
(* main.py declares the input guardrail with the bare @input_guardrail     *)
(* decorator and hands it to main_agent; when it runs relative to the      *)
(* agent's own generation call is decided by Runner.run.  The Agents SDK   *)
(* starts the input guardrails of the first turn together with the turn's  *)
(* model call, and only the explicit run_in_parallel=False option, which   *)
(* main.py does not pass, makes the model call wait for them.  The model   *)
(* therefore lets the two calls be issued and return in either order;      *)
(* the output guardrail runs once both have completed.                     *)
(***************************************************************************)
EXTENDS Naturals, Sequences, FiniteSets

\* Number of incoming messages modelled.
NumReq == 2
\* Chat sessions that may start.
Chats == {"chat1"}

Req == 1..NumReq

\* message.content values and the texts the Primary Responder may generate.
\* The two response names are interchangeable, so Init fixes the response to
\* the first text.
Texts == {"css_question", "walrus_question"}
Responses == {"answer_a", "answer_b"}

\* os.getenv("GEMINI_API_KEY"): unset (None), empty, or a key.
None == "None"
KeyValues == {None, "", "key"}

\* Fixed texts sent by the handlers (the leading emoji is left out).
GREETING == "Hello! I'm ready to assist you with Python programming."
INPUT_REJECTION == "Please ask questions related to Python programming only."
OUTPUT_REJECTION == "Output was rejected by the guardrail. Try rephrasing your Python query."

\* Module-level objects built after the key check.
Objects == {"external_client", "model", "input_guardrails_agent",
            "output_guardrail_agent", "main_agent"}
Handlers == {"on_chat_start", "on_message"}

Stages == {"input", "main", "output"}

VARIABLES
    apiKey,      \* value of GEMINI_API_KEY in the environment
    proc,        \* "loading" | "serving" | "startup_failed"
    created,     \* module-level objects constructed so far
    registered,  \* chat handlers registered with the UI framework
    greetings,   \* per chat session: messages sent by on_chat_start
    stubIn,      \* Input Validator: text -> is_python_related
    stubMain,    \* Primary Responder: text -> generated response
    stubOut,     \* Output Validator: response -> is_Python
    pc,          \* per message: "idle" | "run" | "done" | "error"
    text,        \* per message: message.content
    call,        \* per message, per stage: state of the generation call
    issued,      \* per message, per stage: number of generation calls issued
    inVerdict,   \* per message: <<>> while unknown, then <<is_python_related>>
    outVerdict,  \* per message: <<>> while unknown, then <<is_Python>>
    finalOutput, \* per message: the Primary Responder's output, or None
    sent         \* per message: contents sent by on_message, in order

procVars == <<apiKey, proc, created, registered>>
stubVars == <<stubIn, stubMain, stubOut>>
reqVars == <<pc, text, call, issued, inVerdict, outVerdict, finalOutput, sent>>
vars == <<apiKey, proc, created, registered, greetings, stubIn, stubMain, stubOut,
          pc, text, call, issued, inVerdict, outVerdict, finalOutput, sent>>

CallStates == {"none", "inflight", "returned", "failed", "abandoned"}

TypeOK ==
    /\ apiKey \in KeyValues
    /\ proc \in {"loading", "serving", "startup_failed"}
    /\ created \subseteq Objects
    /\ registered \subseteq Handlers
    /\ greetings \in [Chats -> {<<>>, <<GREETING>>}]
    /\ stubIn \in [Texts -> BOOLEAN]
    /\ stubMain \in [Texts -> Responses]
    /\ stubOut \in [Responses -> BOOLEAN]
    /\ pc \in [Req -> {"idle", "run", "done", "error"}]
    /\ text \in [Req -> Texts \cup {None}]
    /\ call \in [Req -> [Stages -> CallStates]]
    /\ issued \in [Req -> [Stages -> Nat]]
    /\ inVerdict \in [Req -> {<<>>, <<TRUE>>, <<FALSE>>}]
    /\ outVerdict \in [Req -> {<<>>, <<TRUE>>, <<FALSE>>}]
    /\ finalOutput \in [Req -> Responses \cup {None}]
    /\ sent \in [Req -> Seq(Responses \cup {INPUT_REJECTION, OUTPUT_REJECTION})]

Init ==
    /\ apiKey \in KeyValues
    /\ proc = "loading"
    /\ created = {}
    /\ registered = {}
    /\ greetings = [c \in Chats |-> <<>>]
    /\ stubIn \in [Texts -> BOOLEAN]
    /\ stubMain \in {f \in [Texts -> Responses] : f["css_question"] = "answer_a"}
    /\ stubOut \in [Responses -> BOOLEAN]
    /\ pc = [r \in Req |-> "idle"]
    /\ text = [r \in Req |-> None]
    /\ call = [r \in Req |-> [s \in Stages |-> "none"]]
    /\ issued = [r \in Req |-> [s \in Stages |-> 0]]
    /\ inVerdict = [r \in Req |-> <<>>]
    /\ outVerdict = [r \in Req |-> <<>>]
    /\ finalOutput = [r \in Req |-> None]
    /\ sent = [r \in Req |-> <<>>]

----------------------------------------------------------------------------
\* Process start

\* Variant: the check written as `if gemini_api_key is None`.
KeyIsNone(k) == k = None

\* `if not gemini_api_key`: true of None and of the empty string.
KeyMissing(k) == k = None \/ k = ""

\* Module body: key check, then client, model, agents and handler decorators.
Startup ==
    /\ proc = "loading"
    /\ IF KeyMissing(apiKey)
         THEN /\ proc' = "startup_failed"
              /\ UNCHANGED <<created, registered>>
         ELSE /\ proc' = "serving"
              /\ created' = Objects
              /\ registered' = Handlers
    /\ UNCHANGED <<apiKey, greetings>>
    /\ UNCHANGED stubVars
    /\ UNCHANGED reqVars

\* on_chat_start: the framework calls it once when chat session c starts.
OnChatStart(c) ==
    /\ "on_chat_start" \in registered
    /\ greetings[c] = <<>>
    /\ greetings' = [greetings EXCEPT ![c] = Append(@, GREETING)]
    /\ UNCHANGED procVars
    /\ UNCHANGED stubVars
    /\ UNCHANGED reqVars

----------------------------------------------------------------------------
\* on_message

\* Calls still in flight when Runner.run ends are never awaited again.
Abandon(c) == [s \in Stages |-> IF c[s] = "inflight" THEN "abandoned" ELSE c[s]]

\* Variant: an input guardrail whose tripwire is never set.
InputNeverTrips(v) == FALSE

\* Variant: an output guardrail without the `not`.
OutputTripsOnPython(v) == v

\* tripwire_triggered of the two guardrail functions.
InputTripwire(v) == ~v
OutputTripwire(v) == ~v

\* The framework invokes on_message with the r-th incoming message;
\* Runner.run(main_agent, input=message.content) starts.
Receive(r, t) ==
    /\ "on_message" \in registered
    /\ pc[r] = "idle"
    /\ \A q \in Req : q < r => pc[q] # "idle"
    /\ pc' = [pc EXCEPT ![r] = "run"]
    /\ text' = [text EXCEPT ![r] = t]
    /\ UNCHANGED <<call, issued, inVerdict, outVerdict, finalOutput, sent>>
    /\ UNCHANGED procVars
    /\ UNCHANGED stubVars
    /\ UNCHANGED greetings

\* Runner.run(input_guardrails_agent, input) inside input_guardrails_func.
IssueInput(r) ==
    /\ pc[r] = "run"
    /\ call[r]["input"] = "none"
    /\ call' = [call EXCEPT ![r]["input"] = "inflight"]
    /\ issued' = [issued EXCEPT ![r]["input"] = @ + 1]
    /\ UNCHANGED <<pc, text, inVerdict, outVerdict, finalOutput, sent>>
    /\ UNCHANGED procVars
    /\ UNCHANGED stubVars
    /\ UNCHANGED greetings

\* The generation call of main_agent's turn.
IssueMain(r) ==
    /\ pc[r] = "run"
    /\ call[r]["main"] = "none"
    /\ call' = [call EXCEPT ![r]["main"] = "inflight"]
    /\ issued' = [issued EXCEPT ![r]["main"] = @ + 1]
    /\ UNCHANGED <<pc, text, inVerdict, outVerdict, finalOutput, sent>>
    /\ UNCHANGED procVars
    /\ UNCHANGED stubVars
    /\ UNCHANGED greetings

\* Runner.run(output_guardrail_agent, output) inside output_python_guardrail:
\* the output guardrail runs on the final output of a turn whose input
\* guardrail has completed without tripping.
IssueOutput(r) ==
    /\ pc[r] = "run"
    /\ call[r]["input"] = "returned"
    /\ call[r]["main"] = "returned"
    /\ call[r]["output"] = "none"
    /\ call' = [call EXCEPT ![r]["output"] = "inflight"]
    /\ issued' = [issued EXCEPT ![r]["output"] = @ + 1]
    /\ UNCHANGED <<pc, text, inVerdict, outVerdict, finalOutput, sent>>
    /\ UNCHANGED procVars
    /\ UNCHANGED stubVars
    /\ UNCHANGED greetings

\* Variant: the message is built but send() is not called.
MessageNotSent(s, m) == s

\* cl.Message(content=m).send()
SendMessage(s, m) == Append(s, m)

\* The except clauses of on_message: the content sent for an exception
\* raised by Runner.run, or Unhandled when no clause matches.
Unhandled == "Unhandled"

\* Variant: the two except clauses with their messages exchanged.
ExceptClausesSwapped(exc) ==
    IF exc = "InputGuardrailTripwireTriggered" THEN OUTPUT_REJECTION
    ELSE IF exc = "OutputGuardrailTripwireTriggered" THEN INPUT_REJECTION
    ELSE Unhandled

\* Variant: the second clause written as `except Exception`.
ExceptCatchesAll(exc) ==
    IF exc = "InputGuardrailTripwireTriggered" THEN INPUT_REJECTION
    ELSE OUTPUT_REJECTION

OnMessageExcept(exc) ==
    IF exc = "InputGuardrailTripwireTriggered" THEN INPUT_REJECTION
    ELSE IF exc = "OutputGuardrailTripwireTriggered" THEN OUTPUT_REJECTION
    ELSE Unhandled

\* Runner.run raises exc in the handler of message r.
Raise(r, exc) ==
    IF OnMessageExcept(exc) = Unhandled
      THEN /\ pc' = [pc EXCEPT ![r] = "error"]
           /\ UNCHANGED sent
      ELSE /\ pc' = [pc EXCEPT ![r] = "done"]
           /\ sent' = [sent EXCEPT ![r] = SendMessage(@, OnMessageExcept(exc))]

\* Variant: the result is kept in one module-level variable that every
\* handler reads.
SharedFinalOutput(r) == finalOutput[CHOOSE q \in Req : finalOutput[q] # None]

\* result.final_output of the run of message r.
ResultFinalOutput(r) == finalOutput[r]

\* The Input Validator returns its verdict; a negative verdict trips the wire.
InputReturns(r) ==
    /\ pc[r] = "run"
    /\ call[r]["input"] = "inflight"
    /\ inVerdict' = [inVerdict EXCEPT ![r] = <<stubIn[text[r]]>>]
    /\ IF InputTripwire(stubIn[text[r]])
         THEN /\ call' = [call EXCEPT ![r] = Abandon([@ EXCEPT !["input"] = "returned"])]
              /\ Raise(r, "InputGuardrailTripwireTriggered")
         ELSE /\ call' = [call EXCEPT ![r]["input"] = "returned"]
              /\ UNCHANGED <<pc, sent>>
    /\ UNCHANGED <<text, issued, outVerdict, finalOutput>>
    /\ UNCHANGED procVars
    /\ UNCHANGED stubVars
    /\ UNCHANGED greetings

\* The Primary Responder returns its response.
MainReturns(r) ==
    /\ pc[r] = "run"
    /\ call[r]["main"] = "inflight"
    /\ call' = [call EXCEPT ![r]["main"] = "returned"]
    /\ finalOutput' = [finalOutput EXCEPT ![r] = stubMain[text[r]]]
    /\ UNCHANGED <<pc, text, issued, inVerdict, outVerdict, sent>>
    /\ UNCHANGED procVars
    /\ UNCHANGED stubVars
    /\ UNCHANGED greetings

\* The Output Validator returns its verdict: a negative verdict trips the
\* wire, a positive one lets Runner.run return and the answer is sent.
OutputReturns(r) ==
    /\ pc[r] = "run"
    /\ call[r]["output"] = "inflight"
    /\ outVerdict' = [outVerdict EXCEPT ![r] = <<stubOut[finalOutput[r]]>>]
    /\ call' = [call EXCEPT ![r]["output"] = "returned"]
    /\ IF OutputTripwire(stubOut[finalOutput[r]])
         THEN Raise(r, "OutputGuardrailTripwireTriggered")
         ELSE /\ pc' = [pc EXCEPT ![r] = "done"]
              /\ sent' = [sent EXCEPT ![r] = SendMessage(@, ResultFinalOutput(r))]
    /\ UNCHANGED <<text, issued, inVerdict, finalOutput>>
    /\ UNCHANGED procVars
    /\ UNCHANGED stubVars
    /\ UNCHANGED greetings

\* Variant: a failed call is issued again.
RetryOnCallFailure(r, s) ==
    /\ call' = [call EXCEPT ![r][s] = "none"]
    /\ UNCHANGED <<pc, sent>>

\* The exception of a failed call leaves Runner.run: the calls still in
\* flight are dropped, nothing is issued again, and on_message has no
\* except clause for it.
OnCallFailure(r, s) ==
    /\ call' = [call EXCEPT ![r] = Abandon([@ EXCEPT ![s] = "failed"])]
    /\ Raise(r, "UpstreamFailure")

\* A generation call fails (timeout, malformed structured output, quota).
CallFails(r, s) ==
    /\ pc[r] = "run"
    /\ call[r][s] = "inflight"
    /\ OnCallFailure(r, s)
    /\ UNCHANGED <<text, issued, inVerdict, outVerdict, finalOutput>>
    /\ UNCHANGED procVars
    /\ UNCHANGED stubVars
    /\ UNCHANGED greetings

Next ==
    \/ Startup
    \/ \E c \in Chats : OnChatStart(c)
    \/ \E r \in Req, t \in Texts : Receive(r, t)
    \/ \E r \in Req : IssueInput(r)
    \/ \E r \in Req : IssueMain(r)
    \/ \E r \in Req : IssueOutput(r)
    \/ \E r \in Req : InputReturns(r)
    \/ \E r \in Req : MainReturns(r)
    \/ \E r \in Req : OutputReturns(r)
    \/ \E r \in Req, s \in Stages : CallFails(r, s)

----------------------------------------------------------------------------
\* Properties

Terminal(r) == pc[r] \in {"done", "error"}
Failed(r) == \E s \in Stages : call[r][s] = "failed"
Contents(q) == {q[i] : i \in 1..Len(q)}
TotalIssued(r) == issued[r]["input"] + issued[r]["main"] + issued[r]["output"]

\* The message a run without call failures delivers for text t, from the
\* three stubs alone.
Expected(t) ==
    IF ~stubIn[t] THEN INPUT_REJECTION
    ELSE IF ~stubOut[stubMain[t]] THEN OUTPUT_REJECTION
    ELSE stubMain[t]

\* C1: whenever the Input Validator's verdict for a message is negative,
\* the message delivered is the fixed input-rejection text and the Primary
\* Responder's generation call has not been issued for that message.
C1_InputRejectedWithoutResponder ==
    \A r \in Req :
        inVerdict[r] = <<FALSE>> =>
            /\ sent[r] = <<INPUT_REJECTION>>
            /\ issued[r]["main"] = 0

\* C2: whenever the input verdict is positive and the output verdict is
\* negative, the only message delivered is the fixed output-rejection text;
\* the generated text is not delivered.
C2_OutputRejected ==
    \A r \in Req :
        (inVerdict[r] = <<TRUE>> /\ outVerdict[r] = <<FALSE>>) =>
            /\ pc[r] = "done"
            /\ sent[r] = <<OUTPUT_REJECTION>>
            /\ Contents(sent[r]) \cap Responses = {}

C2_Witness ==
    \E r \in Req :
        /\ inVerdict[r] = <<TRUE>>
        /\ outVerdict[r] = <<FALSE>>
        /\ finalOutput[r] \in Responses
        /\ pc[r] = "done"

\* C3: whenever both verdicts are positive, the message delivered is exactly
\* what the Primary Responder generated for the message's text.
C3_DeliveredUnmodified ==
    \A r \in Req :
        (inVerdict[r] = <<TRUE>> /\ outVerdict[r] = <<TRUE>>) =>
            /\ pc[r] = "done"
            /\ sent[r] = <<stubMain[text[r]]>>

C3_Witness ==
    \E r \in Req :
        /\ inVerdict[r] = <<TRUE>>
        /\ outVerdict[r] = <<TRUE>>
        /\ sent[r] = <<finalOutput[r]>>

\* C4 as stated: once on_message has ended for a message, whatever the
\* outcome of the generation calls, send has been called exactly once, with
\* the generated answer or one of the two rejection texts.
C4_SendExactlyOnceAlways ==
    \A r \in Req :
        Terminal(r) =>
            /\ Len(sent[r]) = 1
            /\ sent[r][1] \in {stubMain[text[r]], INPUT_REJECTION, OUTPUT_REJECTION}

\* C4 as amended: send is never called more than once for a message and
\* never before the run has ended; it has been called exactly once, with the
\* generated answer or one of the two rejection texts, when on_message ends
\* without a failed generation call; it has not been called at all when
\* on_message ends by the failure of a generation call.
C4_SendOnceUnlessFailed ==
    \A r \in Req :
        /\ Len(sent[r]) <= 1
        /\ pc[r] \in {"idle", "run"} => sent[r] = <<>>
        /\ (Terminal(r) /\ ~Failed(r)) =>
              /\ Len(sent[r]) = 1
              /\ sent[r][1] \in {stubMain[text[r]], INPUT_REJECTION, OUTPUT_REJECTION}
        /\ (Terminal(r) /\ Failed(r)) => sent[r] = <<>>

C4_Witness ==
    \E r1, r2 \in Req :
        /\ pc[r1] = "done" /\ Len(sent[r1]) = 1
        /\ pc[r2] = "error" /\ Failed(r2) /\ sent[r2] = <<>>

\* C5: if a generated response has been sent for a message, then both the
\* input verdict and the output verdict of that message are positive (none
\* is negative or still unknown).
C5_ResponseOnlyIfBothAccepted ==
    \A r \in Req :
        (Contents(sent[r]) \cap Responses # {}) =>
            /\ inVerdict[r] = <<TRUE>>
            /\ outVerdict[r] = <<TRUE>>

C5_Witness ==
    \E r \in Req :
        /\ Contents(sent[r]) \cap Responses # {}
        /\ inVerdict[r] = <<TRUE>>
        /\ outVerdict[r] = <<TRUE>>

\* C6: when a generation call of a message has failed, on_message has ended
\* with the error unhandled and has sent nothing; a failed validator call
\* leaves no verdict; and a rejection text is sent only for a negative
\* verdict of the corresponding validator.
C6_FailurePropagates ==
    \A r \in Req :
        /\ Failed(r) => (pc[r] = "error" /\ sent[r] = <<>>)
        /\ call[r]["input"] = "failed" => inVerdict[r] = <<>>
        /\ call[r]["output"] = "failed" => outVerdict[r] = <<>>
        /\ INPUT_REJECTION \in Contents(sent[r]) => inVerdict[r] = <<FALSE>>
        /\ OUTPUT_REJECTION \in Contents(sent[r]) => outVerdict[r] = <<FALSE>>

C6_Witness ==
    /\ \E r \in Req : call[r]["input"] = "failed" /\ pc[r] = "error"
    /\ \E r \in Req : call[r]["output"] = "failed" /\ pc[r] = "error"

\* C7: when GEMINI_API_KEY is unset or empty, no module-level object is ever
\* constructed, no handler is registered, the process never serves, no
\* greeting is sent and no message is handled.
C7_NoKeyNoStart ==
    (apiKey = None \/ apiKey = "") =>
        /\ proc \in {"loading", "startup_failed"}
        /\ created = {}
        /\ registered = {}
        /\ \A c \in Chats : greetings[c] = <<>>
        /\ \A r \in Req : pc[r] = "idle" /\ sent[r] = <<>>

C7_Witness ==
    /\ apiKey = ""
    /\ proc = "startup_failed"

\* C8: with the three stubs fixed, two messages with the same text whose
\* handling has ended without a call failure have the same delivered
\* messages, however their handling was interleaved, and the message
\* delivered for each depends on its own text alone.
C8_NoCrossRequestState ==
    /\ \A r1, r2 \in Req :
          (pc[r1] = "done" /\ pc[r2] = "done" /\ text[r1] = text[r2])
              => sent[r1] = sent[r2]
    /\ \A r \in Req : pc[r] = "done" => sent[r] = <<Expected(text[r])>>

C8_Witness ==
    \E r1, r2 \in Req :
        /\ r1 # r2
        /\ pc[r1] = "done" /\ pc[r2] = "done"
        /\ text[r1] = text[r2]
        /\ sent[r1] = sent[r2]
        /\ Contents(sent[r1]) \cap Responses # {}

\* C9: the Primary Responder's call is issued only once the Input Validator
\* has returned a positive verdict, and the Output Validator's call only
\* once the Primary Responder has returned.
C9_StagesStrictlySequential ==
    \A r \in Req :
        /\ issued[r]["main"] > 0 => inVerdict[r] = <<TRUE>>
        /\ issued[r]["output"] > 0 => finalOutput[r] \in Responses

\* C10: every stage of a message issues at most one generation call, exactly
\* one when the stage has been reached, so a message uses at most three
\* calls; a failed call or a negative verdict ends the handling of the
\* message with nothing left in flight and nothing issued again.
C10_AtMostOneCallPerStage ==
    \A r \in Req :
        /\ \A s \in Stages :
              /\ issued[r][s] <= 1
              /\ issued[r][s] = 1 <=> call[r][s] # "none"
        /\ TotalIssued(r) <= 3
        /\ (Failed(r) \/ inVerdict[r] = <<FALSE>> \/ outVerdict[r] = <<FALSE>>) =>
              /\ Terminal(r)
              /\ \A s \in Stages : call[r][s] # "inflight"

C10_Witness ==
    /\ \E r \in Req : pc[r] = "done" /\ TotalIssued(r) = 3
    /\ \E r \in Req : Failed(r) /\ pc[r] = "error"

Spec == Init /\ [][Next]_vars
====
